---- MODULE Spec2Model ----
(***************************************************************************)
(* Model of gazeflow-relay.js (src/unnamed/part_000): one upstream         *)
(* WebSocket client with authentication handshake and exponential-backoff  *)
(* reconnect, and a broadcast hub that fans every decoded gaze point out   *)
(* to the browser clients of a WebSocket server.                           *)
(*                                                                         *)
(* The handlers are closures over the module-level variables `upstream`,   *)
(* `upstreamAuthorized`, `reconnectDelay`, `reconnectTimer`, `lastPoint`;  *)
(* every socket ever created keeps its handlers, so an event of an earlier *)
(* socket runs the same code against the current values of the variables.  *)
(* Each action below is one callback run to completion (Node runs one      *)
(* callback at a time).  The `ws` sockets and the Node timer queue are the *)
(* environment: their readyState transitions and events follow ws 8.       *)
(*                                                                         *)
(* A frame is the sequence of its lexemes: a text reply is spelled one     *)
(* character per lexeme, a JSON frame one JSON token per lexeme.           *)
(*                                                                         *)
(* The polling service of the frontend (eegService.js) is modelled next to *)
(* it, in the variable `eeg`; the two programs share nothing.              *)
(***************************************************************************)
EXTENDS Integers, Sequences, FiniteSets, TLC

\* ---- program constants (part_000:15-16) ----
RECONNECT_BASE_DELAY == 1000
RECONNECT_MAX_DELAY == 10000

\* ---- bounds of the model ----
MaxConns == 2          \* upstream sockets created in a run of Spec
MaxRelayClients == 1   \* browser connections accepted in a run of Spec
MaxRelayPublishes == 1 \* points published in a run of Spec
MaxClients == 2        \* browser connections accepted in a run of SpecHub
MaxPublishes == 3      \* points published in a run of SpecHub
MaxFailConns == 7      \* upstream sockets created in a run of SpecFail
MaxRaceConns == 3      \* upstream sockets created in a run of SpecRace
MaxBackoffConns == 6   \* upstream sockets created in a run of SpecBackoff
MaxEegTimers == 3      \* poll timeouts pending at one time in SpecEEG
MaxPolls == 2          \* calls of _pollOnce suspended at one time in SpecEEG
MaxCalmConns == 3      \* upstream sockets not yet CLOSED at one time in SpecCalm

Min(a, b) == IF a < b THEN a ELSE b

\* ---- frames the upstream may send ----
OkPrefix == <<"o", "k">>

ReplyFrames ==
  { <<"o", "k">>,
    <<"o", "k", ",", " ", "w", "e", "l", "c", "o", "m", "e">>,
    <<"f", "a", "i", "l">>,
    << >>,
    <<"O", "K">>,
    <<"n", "o", "k">> }

FrameValid    == <<"{", "\"GazeX\"", ":", "0.5", ",", "\"GazeY\"", ":", "0.25", "}">>
FrameExtra    == <<"{", "\"Time\"", ":", "7", ",", "\"GazeX\"", ":", "0.50", ",",
                   "\"GazeY\"", ":", "1", "}">>
FrameHuge     == <<"{", "\"GazeX\"", ":", "1e999", ",", "\"GazeY\"", ":", "0.25", "}">>
FrameNoY      == <<"{", "\"GazeX\"", ":", "0.5", "}">>
FrameStringX  == <<"{", "\"GazeX\"", ":", "\"s\"", ",", "\"GazeY\"", ":", "0.25", "}">>
FrameNull     == <<"null">>
FrameNumber   == <<"7">>
FrameBroken   == <<"{", "\"GazeX\"", ":">>

DataFrames ==
  { FrameValid, FrameExtra, FrameHuge, FrameNoY, FrameStringX,
    FrameNull, FrameNumber, FrameBroken }

Frames == ReplyFrames \cup DataFrames

\* the frames of a run of Spec: a reply that authorizes, one that does not,
\* a point and the frame that throws
RelayFrames == { <<"o", "k">>, <<"f", "a", "i", "l">>, FrameValid, FrameNull }

\* the frames of a run of SpecHub: a reply that authorizes (and is dropped
\* when it comes again), the points and the frame that throws
HubFrames == { <<"o", "k">>, FrameValid, FrameHuge, FrameNull }

\* the frames of a run of SpecRace: the two replies
RaceFrames == { <<"o", "k">>, <<"f", "a", "i", "l">> }

\* ---- String.prototype.startsWith ----
startsWithAnywhere(msg, prefix) ==
  \E k \in 0..Len(msg) :
    /\ k + Len(prefix) <= Len(msg)
    /\ SubSeq(msg, k + 1, k + Len(prefix)) = prefix

startsWith(msg, prefix) ==
  /\ Len(msg) >= Len(prefix)
  /\ SubSeq(msg, 1, Len(prefix)) = prefix

\* ---- JSON.parse over lexemes ----
NumberLexemes == {"0.5", "0.50", "0.25", "1", "7", "1e999"}
StringLexemes == {"\"GazeX\"", "\"GazeY\"", "\"Time\"", "\"s\"", "\"x\"", "\"y\""}

\* the IEEE double a number lexeme denotes, named by its shortest decimal;
\* a literal beyond the double range parses to Infinity
ToDouble(lex) ==
  CASE lex = "0.50"  -> "0.5"
    [] lex = "1e999" -> "Infinity"
    [] OTHER         -> lex

Unquote(lex) ==
  CASE lex = "\"GazeX\"" -> "GazeX"
    [] lex = "\"GazeY\"" -> "GazeY"
    [] lex = "\"Time\""  -> "Time"
    [] lex = "\"x\""     -> "x"
    [] lex = "\"y\""     -> "y"
    [] OTHER             -> "s"

IsScalarLexeme(lex) ==
  lex \in NumberLexemes \cup StringLexemes \cup {"null", "true", "false"}

ParseScalar(lex) ==
  IF lex \in NumberLexemes THEN [t |-> "number", v |-> ToDouble(lex)]
  ELSE IF lex \in StringLexemes THEN [t |-> "string", v |-> Unquote(lex)]
  ELSE IF lex = "null" THEN [t |-> "null", v |-> "null"]
  ELSE [t |-> "boolean", v |-> lex]

SyntaxError == [ok |-> FALSE]

NoFields == [k \in {} |-> [t |-> "null", v |-> "null"]]

RECURSIVE ParseMembers(_, _, _)
ParseMembers(toks, i, acc) ==
  IF i + 3 > Len(toks) THEN SyntaxError
  ELSE IF \/ toks[i] \notin StringLexemes
          \/ toks[i + 1] # ":"
          \/ ~IsScalarLexeme(toks[i + 2]) THEN SyntaxError
  ELSE LET acc2 == (Unquote(toks[i]) :> ParseScalar(toks[i + 2])) @@ acc IN
    IF toks[i + 3] = "}"
      THEN IF i + 3 = Len(toks)
             THEN [ok |-> TRUE, val |-> [t |-> "object", f |-> acc2]]
             ELSE SyntaxError
    ELSE IF toks[i + 3] = "," THEN ParseMembers(toks, i + 4, acc2)
    ELSE SyntaxError

JSONParse(toks) ==
  IF Len(toks) = 1 /\ IsScalarLexeme(toks[1])
    THEN [ok |-> TRUE, val |-> ParseScalar(toks[1])]
  ELSE IF toks = <<"[", "]">>
    THEN [ok |-> TRUE, val |-> [t |-> "array", v |-> "array"]]
  ELSE IF toks = <<"{", "}">>
    THEN [ok |-> TRUE, val |-> [t |-> "object", f |-> NoFields]]
  ELSE IF Len(toks) >= 1 /\ toks[1] = "{" THEN ParseMembers(toks, 2, NoFields)
  ELSE SyntaxError

\* JSON.parse of every frame the upstream may send, worked out once
ParsedFrames == [msg \in Frames |-> JSONParse(msg)]

Parsed(msg) == ParsedFrames[msg]

\* typeof raw[key] === "number"; reading a property of null throws, and is
\* kept apart by PropThrows
PropThrows(raw) == raw.t = "null"

TypeofNumber(raw, key) ==
  /\ raw.t = "object"
  /\ key \in DOMAIN raw.f
  /\ raw.f[key].t = "number"

\* ---- JSON.stringify of a point {x, y} ----
NumToJSON(d) == IF d = "Infinity" THEN "null" ELSE d

JSONStringify(point) ==
  <<"{", "\"x\"", ":", NumToJSON(point.x), ",", "\"y\"", ":", NumToJSON(point.y), "}">>


\* ---- state ----
VARIABLES
  started,             \* the server.listen callback has run
  crashed,             \* the process died of an uncaught exception
  socks,               \* every upstream socket created so far, in creation order
  upstream,            \* index into socks of the current socket, 0 for null
  upstreamAuthorized,
  reconnectDelay,
  reconnectTimer,      \* TRUE when the variable holds a Timeout object
  timers,              \* number of reconnect timeouts pending in Node's timer queue
  lastPoint,           \* << >> for null, <<point>> otherwise
  clients,             \* readyState of every browser socket accepted so far
  wssClients,          \* wss.clients
  inbox,               \* payloads passed to send() of each browser socket not yet closed
  published,           \* history: the points given to broadcastPoint
  joinedAt,            \* history: Len(published) when the browser socket connected
  lastDelay,           \* history: delay of the most recently created timeout
  schedSinceOpen,      \* history: timeouts created since the last open event (or the start)
  everOpened,          \* history: some socket reached OPEN
  last,                \* history: the upstream callback that ran last
  eeg                  \* the EEGService object of the frontend (eegService.js)

upVars == <<socks, upstream, upstreamAuthorized>>
timerVars == <<reconnectDelay, reconnectTimer, timers, lastDelay, schedSinceOpen>>
hubVars == <<lastPoint, clients, wssClients, inbox, published, joinedAt>>
vars == <<started, crashed, upVars, timerVars, hubVars, everOpened, last, eeg>>

\* ---- new EEGService(...) (eegService.js:27-41): _timerId is "null", or
\*      names a timeout that is "pending" or one that has "fired"; a poll is a
\*      call of _pollOnce suspended at an await, `mine` when _abortController
\*      is the controller it created ----
EEGService ==
  [isRunning |-> FALSE, timerId |-> "null", timers |-> 0, polls |-> << >>]

ClientIds == 1..(IF MaxClients > MaxRelayClients THEN MaxClients ELSE MaxRelayClients)

NewSock == [rs |-> "CONNECTING", errored |-> FALSE, wasOpen |-> FALSE, sent |-> 0, rcvd |-> 0]

Ev(op, s, msg) == [op |-> op, s |-> s, msg |-> msg, auth |-> upstreamAuthorized]

Init ==
  /\ started = FALSE
  /\ crashed = FALSE
  /\ socks = << >>
  /\ upstream = 0
  /\ upstreamAuthorized = FALSE
  /\ reconnectDelay = RECONNECT_BASE_DELAY
  /\ reconnectTimer = FALSE
  /\ timers = 0
  /\ lastPoint = << >>
  /\ clients = [c \in ClientIds |-> "NONE"]
  /\ wssClients = {}
  /\ inbox = [c \in ClientIds |-> << >>]
  /\ published = << >>
  /\ joinedAt = [c \in ClientIds |-> 0]
  /\ lastDelay = 0
  /\ schedSinceOpen = 0
  /\ everOpened = FALSE
  /\ last = [op |-> "init", s |-> 0, msg |-> << >>, auth |-> FALSE]
  /\ eeg = EEGService

\* ---- ws: WebSocket.prototype.close on socket i of ss ----
WsClose(ss, i) ==
  [ss EXCEPT ![i].rs = IF @ \in {"CONNECTING", "OPEN"} THEN "CLOSING" ELSE @]

Bump(n) == Min(n + 1, 2)

\* a CLOSED socket emits nothing more: what ws remembered about it is dropped
Closed(sock) == [sock EXCEPT !.rs = "CLOSED", !.errored = FALSE, !.rcvd = 0]

\* ---- an uncaught exception in a callback ends the process: the operating
\*      system closes every socket and the timer queue is gone ----
Crash(ss) ==
  /\ crashed' = TRUE
  /\ socks' = [i \in DOMAIN ss |-> Closed(ss[i])]
  /\ clients' = [c \in ClientIds |-> IF clients[c] = "NONE" THEN "NONE" ELSE "CLOSED"]
  /\ wssClients' = {}
  /\ timers' = 0

\* ---- broadcastPoint (part_000:34-43) ----
\* variant: the readyState of a client is not looked at
broadcastPointNoCheck(point) ==
  /\ lastPoint' = <<point>>
  /\ inbox' = [c \in ClientIds |->
                 IF c \in wssClients
                   THEN Append(inbox[c], JSONStringify(point))
                   ELSE inbox[c]]
  /\ published' = Append(published, point)
  /\ UNCHANGED <<clients, wssClients, joinedAt>>

\* variant: the loop stops after the first client of wss.clients
broadcastPointFirstOnly(point) ==
  /\ lastPoint' = <<point>>
  /\ inbox' = [c \in ClientIds |->
                 IF c \in wssClients /\ clients[c] = "OPEN" /\ \A d \in wssClients : c <= d
                   THEN Append(inbox[c], JSONStringify(point))
                   ELSE inbox[c]]
  /\ published' = Append(published, point)
  /\ UNCHANGED <<clients, wssClients, joinedAt>>

\* variant: the point is sent and not stored
broadcastPointNoStore(point) ==
  /\ lastPoint' = lastPoint
  /\ inbox' = [c \in ClientIds |->
                 IF c \in wssClients /\ clients[c] = "OPEN"
                   THEN Append(inbox[c], JSONStringify(point))
                   ELSE inbox[c]]
  /\ published' = Append(published, point)
  /\ UNCHANGED <<clients, wssClients, joinedAt>>

\* variant: lastPoint keeps the first point it was given
broadcastPointStale(point) ==
  /\ lastPoint' = IF lastPoint = << >> THEN <<point>> ELSE lastPoint
  /\ inbox' = [c \in ClientIds |->
                 IF c \in wssClients /\ clients[c] = "OPEN"
                   THEN Append(inbox[c], JSONStringify(point))
                   ELSE inbox[c]]
  /\ published' = Append(published, point)
  /\ UNCHANGED <<clients, wssClients, joinedAt>>

broadcastPoint(point) ==
  /\ lastPoint' = <<point>>
  /\ inbox' = [c \in ClientIds |->
                 IF c \in wssClients /\ clients[c] = "OPEN"
                   THEN Append(inbox[c], JSONStringify(point))
                   ELSE inbox[c]]
  /\ published' = Append(published, point)
  /\ UNCHANGED <<clients, wssClients, joinedAt>>

\* ---- the reconnect state a callback reads and leaves behind ----
Timing ==
  [delay |-> reconnectDelay, timer |-> reconnectTimer, timers |-> timers,
   lastDelay |-> lastDelay, n |-> schedSinceOpen]

SetTiming(t) ==
  /\ reconnectDelay' = t.delay
  /\ reconnectTimer' = t.timer
  /\ timers' = t.timers
  /\ lastDelay' = t.lastDelay
  /\ schedSinceOpen' = t.n

\* ---- scheduleReconnect (part_000:46-62) ----
\* variant: the doubled delay is not capped
scheduleReconnectUncapped(t) ==
  IF t.timer
    THEN t
    ELSE [t EXCEPT !.timer = TRUE,
                   !.timers = @ + 1,
                   !.delay = @ * 2,
                   !.lastDelay = t.delay,
                   !.n = @ + 1]

\* variant: a timeout is created even when one is pending
scheduleReconnectNoGuard(t) ==
  [t EXCEPT !.timer = TRUE,
            !.timers = @ + 1,
            !.delay = Min(@ * 2, RECONNECT_MAX_DELAY),
            !.lastDelay = t.delay,
            !.n = @ + 1]

scheduleReconnect(t) ==
  IF t.timer
    THEN t
    ELSE [t EXCEPT !.timer = TRUE,
                   !.timers = @ + 1,
                   !.delay = Min(@ * 2, RECONNECT_MAX_DELAY),
                   !.lastDelay = t.delay,
                   !.n = @ + 1]

\* ---- the bodies of the "close" and "error" handlers (part_000:128-142) ----
onClose(t) == scheduleReconnect(t)

onError(t) == IF ~t.timer THEN scheduleReconnect(t) ELSE t

\* ---- connectUpstream, lines 65-77: close the old socket if OPEN, clear the
\*      flag, create the new socket (its handlers are the actions below) ----
connectUpstream ==
  /\ socks' = Append(IF upstream # 0 /\ socks[upstream].rs = "OPEN"
                       THEN WsClose(socks, upstream)
                       ELSE socks,
                     NewSock)
  /\ upstreamAuthorized' = FALSE
  /\ upstream' = Len(socks) + 1

\* ---- server.listen callback (part_000:160-163) ----
Start ==
  /\ UNCHANGED eeg
  /\ ~started /\ ~crashed
  /\ started' = TRUE
  /\ connectUpstream
  /\ last' = Ev("start", 0, << >>)
  /\ UNCHANGED <<crashed, timerVars, hubVars, everOpened>>

\* ---- the reconnect timeout fires (part_000:56-59) ----
TimerFire(limit) ==
  /\ UNCHANGED eeg
  /\ ~crashed
  /\ timers > 0
  /\ Len(socks) < limit
  /\ timers' = timers - 1
  /\ reconnectTimer' = FALSE
  /\ connectUpstream
  /\ last' = Ev("timer", 0, << >>)
  /\ UNCHANGED <<started, crashed, reconnectDelay, lastDelay, schedSinceOpen,
                 hubVars, everOpened>>

\* ---- upstream "open" (part_000:79-83); upstream.send on a socket that is
\*      still CONNECTING throws, on a CLOSING or CLOSED one it sends nothing ----
\* variant: the handler leaves reconnectDelay alone
UpstreamOpenNoReset(i) ==
  /\ UNCHANGED eeg
  /\ ~crashed
  /\ i \in DOMAIN socks
  /\ socks[i].rs = "CONNECTING"
  /\ LET opened == [socks EXCEPT ![i].rs = "OPEN", ![i].wasOpen = TRUE] IN
       /\ reconnectDelay' = reconnectDelay
       /\ schedSinceOpen' = 0
       /\ everOpened' = TRUE
       /\ last' = Ev("open", i, << >>)
       /\ \/ /\ opened[upstream].rs = "CONNECTING"
             /\ Crash(opened)
             /\ UNCHANGED <<reconnectTimer, lastPoint, inbox>>
          \/ /\ opened[upstream].rs # "CONNECTING"
             /\ socks' = IF opened[upstream].rs = "OPEN"
                           THEN [opened EXCEPT ![upstream].sent = Bump(@)]
                           ELSE opened
             /\ UNCHANGED <<crashed, reconnectTimer, timers, lastPoint, clients,
                            wssClients, inbox>>
       /\ UNCHANGED <<started, upstream, upstreamAuthorized, lastDelay,
                      published, joinedAt>>

UpstreamOpen(i) ==
  /\ UNCHANGED eeg
  /\ ~crashed
  /\ i \in DOMAIN socks
  /\ socks[i].rs = "CONNECTING"
  /\ LET opened == [socks EXCEPT ![i].rs = "OPEN", ![i].wasOpen = TRUE] IN
       /\ reconnectDelay' = RECONNECT_BASE_DELAY
       /\ schedSinceOpen' = 0
       /\ everOpened' = TRUE
       /\ last' = Ev("open", i, << >>)
       /\ \/ /\ opened[upstream].rs = "CONNECTING"
             /\ Crash(opened)
             /\ UNCHANGED <<reconnectTimer, lastPoint, inbox>>
          \/ /\ opened[upstream].rs # "CONNECTING"
             /\ socks' = IF opened[upstream].rs = "OPEN"
                           THEN [opened EXCEPT ![upstream].sent = Bump(@)]
                           ELSE opened
             /\ UNCHANGED <<crashed, reconnectTimer, timers, lastPoint, clients,
                            wssClients, inbox>>
       /\ UNCHANGED <<started, upstream, upstreamAuthorized, lastDelay,
                      published, joinedAt>>

\* ---- upstream "message" (part_000:85-126): ws keeps delivering the frames
\*      of a socket whose close() was called until the peer's close frame ----
CanReceive(i) ==
  /\ i \in DOMAIN socks
  /\ socks[i].wasOpen
  /\ socks[i].rs \in {"OPEN", "CLOSING"}
  /\ ~socks[i].errored

Received(i) == [socks EXCEPT ![i].rcvd = 1]

IsPoint(raw) == TypeofNumber(raw, "GazeX") /\ TypeofNumber(raw, "GazeY")

ToPoint(raw) == [x |-> raw.f["GazeX"].v, y |-> raw.f["GazeY"].v]

\* lines 89-102: the frame is the authentication reply
AuthReply(i, msg) ==
  /\ ~upstreamAuthorized
  /\ upstreamAuthorized' = startsWith(msg, OkPrefix)
  /\ IF startsWith(msg, OkPrefix)
       THEN /\ socks' = Received(i)
            /\ UNCHANGED timerVars
       ELSE /\ socks' = WsClose(Received(i), upstream)
            /\ SetTiming(scheduleReconnect(Timing))
  /\ UNCHANGED <<started, crashed, upstream, hubVars, everOpened>>

\* lines 104-118: the frame is dropped
Discard(i, msg) ==
  /\ upstreamAuthorized
  /\ \/ ~Parsed(msg).ok
     \/ /\ Parsed(msg).ok
        /\ ~PropThrows(Parsed(msg).val)
        /\ ~IsPoint(Parsed(msg).val)
  /\ socks' = Received(i)
  /\ UNCHANGED <<started, crashed, upstream, upstreamAuthorized, timerVars, hubVars,
                 everOpened>>

\* line 114 on raw = null: TypeError outside the try block
DataThrows(i, msg) ==
  /\ upstreamAuthorized
  /\ Parsed(msg).ok
  /\ PropThrows(Parsed(msg).val)
  /\ Crash(Received(i))
  /\ UNCHANGED <<started, upstream, upstreamAuthorized, reconnectDelay, reconnectTimer,
                 lastDelay, schedSinceOpen, lastPoint, inbox, published,
                 joinedAt, everOpened>>

\* lines 120-125
Publish(i, msg, pubLimit) ==
  /\ upstreamAuthorized
  /\ Parsed(msg).ok
  /\ ~PropThrows(Parsed(msg).val)
  /\ IsPoint(Parsed(msg).val)
  /\ Len(published) < pubLimit
  /\ socks' = Received(i)
  /\ broadcastPoint(ToPoint(Parsed(msg).val))
  /\ UNCHANGED <<started, crashed, upstream, upstreamAuthorized, timerVars, everOpened>>

UpstreamMessage(i, msg, pubLimit) ==
  /\ UNCHANGED eeg
  /\ ~crashed
  /\ CanReceive(i)
  /\ last' = Ev("message", i, msg)
  /\ \/ AuthReply(i, msg)
     \/ Discard(i, msg)
     \/ DataThrows(i, msg)
     \/ Publish(i, msg, pubLimit)

\* ---- a socket that never opened fails (refused, timed out, or its handshake
\*      aborted by close()): ws emits "error" and then "close" back to back,
\*      so both handlers (part_000:136-142, 128-134) run before anything else ----
ConnectFail(i) ==
  /\ UNCHANGED eeg
  /\ ~crashed
  /\ i \in DOMAIN socks
  /\ ~socks[i].wasOpen
  /\ socks[i].rs \in {"CONNECTING", "CLOSING"}
  /\ socks' = [socks EXCEPT ![i] = Closed(@)]
  /\ SetTiming(onClose(onError(Timing)))
  /\ last' = Ev("fail", i, << >>)
  /\ UNCHANGED <<started, crashed, upstream, upstreamAuthorized, hubVars, everOpened>>

\* ---- upstream "error" of a socket that had opened (part_000:136-142): ws has
\*      called close() on it, its "close" comes when the connection is down ----
UpstreamError(i) ==
  /\ UNCHANGED eeg
  /\ ~crashed
  /\ i \in DOMAIN socks
  /\ socks[i].wasOpen
  /\ socks[i].rs \in {"OPEN", "CLOSING"}
  /\ ~socks[i].errored
  /\ socks' = [socks EXCEPT ![i].rs = "CLOSING", ![i].errored = TRUE]
  /\ SetTiming(onError(Timing))
  /\ last' = Ev("error", i, << >>)
  /\ UNCHANGED <<started, crashed, upstream, upstreamAuthorized, hubVars, everOpened>>

\* ---- upstream "close" of a socket that had opened (part_000:128-134) ----
\* variant: the cached point is forgotten when the connection goes down
UpstreamCloseForgets(i) ==
  /\ UNCHANGED eeg
  /\ ~crashed
  /\ i \in DOMAIN socks
  /\ socks[i].wasOpen
  /\ socks[i].rs \in {"OPEN", "CLOSING"}
  /\ socks' = [socks EXCEPT ![i] = Closed(@)]
  /\ SetTiming(onClose(Timing))
  /\ last' = Ev("close", i, << >>)
  /\ lastPoint' = << >>
  /\ UNCHANGED <<started, crashed, upstream, upstreamAuthorized, clients, wssClients,
                 inbox, published, joinedAt, everOpened>>

UpstreamClose(i) ==
  /\ UNCHANGED eeg
  /\ ~crashed
  /\ i \in DOMAIN socks
  /\ socks[i].wasOpen
  /\ socks[i].rs \in {"OPEN", "CLOSING"}
  /\ socks' = [socks EXCEPT ![i] = Closed(@)]
  /\ SetTiming(onClose(Timing))
  /\ last' = Ev("close", i, << >>)
  /\ UNCHANGED <<started, crashed, upstream, upstreamAuthorized, hubVars, everOpened>>

\* ---- wss "connection" (part_000:146-157) ----
Subscribe(c, cliLimit) ==
  /\ UNCHANGED eeg
  /\ ~crashed
  /\ started
  /\ c \in ClientIds
  /\ c <= cliLimit
  /\ clients[c] = "NONE"
  /\ \A d \in ClientIds : d < c => clients[d] # "NONE"
  /\ clients' = [clients EXCEPT ![c] = "OPEN"]
  /\ wssClients' = wssClients \cup {c}
  /\ inbox' = [inbox EXCEPT ![c] =
                 IF lastPoint # << >> THEN <<JSONStringify(lastPoint[1])>> ELSE << >>]
  /\ joinedAt' = [joinedAt EXCEPT ![c] = Len(published)]
  /\ UNCHANGED <<started, crashed, upVars, timerVars, lastPoint, published, everOpened,
                 last>>

\* ---- a browser socket starts its closing handshake: it stays in wss.clients ----
ClientClosing(c) ==
  /\ UNCHANGED eeg
  /\ ~crashed
  /\ c \in ClientIds
  /\ clients[c] = "OPEN"
  /\ clients' = [clients EXCEPT ![c] = "CLOSING"]
  /\ UNCHANGED <<started, crashed, upVars, timerVars, lastPoint, wssClients, inbox,
                 published, joinedAt, everOpened, last>>

\* ---- browser socket "close" (part_000:154-156): ws removes it from
\*      wss.clients, and the record of what was sent on it is dropped ----
ClientClose(c) ==
  /\ UNCHANGED eeg
  /\ ~crashed
  /\ c \in ClientIds
  /\ clients[c] \in {"OPEN", "CLOSING"}
  /\ clients' = [clients EXCEPT ![c] = "CLOSED"]
  /\ wssClients' = wssClients \ {c}
  /\ inbox' = [inbox EXCEPT ![c] = << >>]
  /\ joinedAt' = [joinedAt EXCEPT ![c] = 0]
  /\ UNCHANGED <<started, crashed, upVars, timerVars, lastPoint, published, everOpened,
                 last>>

Next ==
  \/ Start
  \/ TimerFire(MaxConns)
  \/ \E i \in 1..MaxConns : UpstreamOpen(i)
  \/ \E i \in 1..MaxConns : \E msg \in RelayFrames :
       UpstreamMessage(i, msg, MaxRelayPublishes)
  \/ \E i \in 1..MaxConns : ConnectFail(i)
  \/ \E i \in 1..MaxConns : UpstreamError(i)
  \/ \E i \in 1..MaxConns : UpstreamClose(i)
  \/ \E c \in ClientIds : Subscribe(c, MaxRelayClients)
  \/ \E c \in ClientIds : ClientClosing(c)
  \/ \E c \in ClientIds : ClientClose(c)

Spec == Init /\ [][Next]_vars

\* ---- one upstream connection that stays up, and the whole hub ----
NextHub ==
  \/ Start
  \/ UpstreamOpen(1)
  \/ \E msg \in HubFrames : UpstreamMessage(1, msg, MaxPublishes)
  \/ \E c \in ClientIds : Subscribe(c, MaxClients)
  \/ \E c \in ClientIds : ClientClosing(c)
  \/ \E c \in ClientIds : ClientClose(c)

SpecHub == Init /\ [][NextHub]_vars

\* ---- one upstream connection that is not replaced, and every frame ----
NextFrames ==
  \/ Start
  \/ UpstreamOpen(1)
  \/ \E msg \in Frames : UpstreamMessage(1, msg, MaxRelayPublishes)
  \/ UpstreamError(1)
  \/ UpstreamClose(1)
  \/ \E c \in ClientIds : Subscribe(c, MaxRelayClients)
  \/ \E c \in ClientIds : ClientClosing(c)
  \/ \E c \in ClientIds : ClientClose(c)

SpecFrames == Init /\ [][NextFrames]_vars

\* ---- the upstream refuses every connection: no socket ever opens ----
NextFail ==
  \/ Start
  \/ TimerFire(MaxFailConns)
  \/ \E i \in 1..MaxFailConns : ConnectFail(i)
  \/ \E c \in ClientIds : Subscribe(c, MaxClients)
  \/ \E c \in ClientIds : ClientClosing(c)
  \/ \E c \in ClientIds : ClientClose(c)

SpecFail == Init /\ [][NextFail]_vars

\* ---- three upstream sockets and no browser: a socket still CONNECTING when
\*      the next one is created, and the events of both in every order ----
NextRace ==
  \/ Start
  \/ TimerFire(MaxRaceConns)
  \/ \E i \in 1..MaxRaceConns : UpstreamOpen(i)
  \/ \E i \in 1..MaxRaceConns : \E msg \in RaceFrames : UpstreamMessage(i, msg, 0)
  \/ \E i \in 1..MaxRaceConns : ConnectFail(i)
  \/ \E i \in 1..MaxRaceConns : UpstreamError(i)
  \/ \E i \in 1..MaxRaceConns : UpstreamClose(i)

SpecRace == Init /\ [][NextRace]_vars

\* ---- connections that fail, or open and are closed, one after another ----
NextBackoff ==
  \/ Start
  \/ TimerFire(MaxBackoffConns)
  \/ \E i \in 1..MaxBackoffConns : UpstreamOpen(i)
  \/ \E i \in 1..MaxBackoffConns : ConnectFail(i)
  \/ \E i \in 1..MaxBackoffConns : UpstreamError(i)
  \/ \E i \in 1..MaxBackoffConns : UpstreamClose(i)

SpecBackoff == Init /\ [][NextBackoff]_vars

\* ---- an upstream that misbehaves until the first reconnect is scheduled and
\*      is faultless from then on: it accepts every connection, answers every
\*      key with "ok", and closes a socket only to complete a close that the
\*      relay began ----
\* a CLOSED socket emits nothing more and no variable refers to it: it is
\* dropped, and the sockets after it move down by one
Forget ==
  /\ UNCHANGED eeg
  /\ ~crashed
  /\ Len(socks) >= 2
  /\ socks[1].rs = "CLOSED"
  /\ socks' = Tail(socks)
  /\ upstream' = upstream - 1
  /\ last' = [last EXCEPT !.s = IF @ >= 1 THEN @ - 1 ELSE 0]
  /\ UNCHANGED <<started, crashed, upstreamAuthorized, timerVars, hubVars, everOpened>>

OkReply(i) ==
  /\ i \in DOMAIN socks
  /\ socks[i].sent >= 1
  /\ socks[i].rcvd = 0
  /\ UpstreamMessage(i, OkPrefix, 0)

ClosingDone(i) ==
  /\ i \in DOMAIN socks
  /\ socks[i].rs = "CLOSING"
  /\ (UpstreamClose(i) \/ ConnectFail(i))

Trouble(i) ==
  /\ lastDelay = 0
  /\ \/ UpstreamMessage(i, <<"f", "a", "i", "l">>, 0)
     \/ UpstreamError(i)
     \/ UpstreamClose(i)
     \/ ConnectFail(i)

NextCalm ==
  \/ Start
  \/ TimerFire(MaxCalmConns)
  \/ Forget
  \/ \E i \in 1..MaxCalmConns : UpstreamOpen(i)
  \/ \E i \in 1..MaxCalmConns : OkReply(i)
  \/ \E i \in 1..MaxCalmConns : ClosingDone(i)
  \/ \E i \in 1..MaxCalmConns : Trouble(i)

SpecCalm ==
  /\ Init
  /\ [][NextCalm]_vars
  /\ WF_vars(Start)
  /\ WF_vars(TimerFire(MaxCalmConns))
  /\ WF_vars(Forget)
  /\ \A i \in 1..MaxCalmConns :
       WF_vars(UpstreamOpen(i)) /\ WF_vars(OkReply(i)) /\ WF_vars(ClosingDone(i))

\* ---- EEGService (eegService.js): every action is one run of the object's
\*      code between two awaits; the relay is left as it is ----
relayVars == <<started, crashed, upVars, timerVars, hubVars, everOpened, last>>

\* _scheduleNextPoll (eegService.js:61-64): the timeout that _timerId named
\* before, if still pending, stays in the timer queue
scheduleNextPoll(e) ==
  IF ~e.isRunning
    THEN e
    ELSE [e EXCEPT !.timerId = "pending", !.timers = @ + 1]

RemoveAt(seq, k) == SubSeq(seq, 1, k - 1) \o SubSeq(seq, k + 1, Len(seq))

\* the finally block (eegService.js:105-108) of poll k
Finally(e, k) ==
  scheduleNextPoll(
    [e EXCEPT !.polls = [j \in 1..(Len(e.polls) - 1) |->
                           [RemoveAt(e.polls, k)[j] EXCEPT !.mine = FALSE]]])

\* start() (eegService.js:43-47)
EegStart ==
  /\ ~eeg.isRunning
  /\ eeg.timers < MaxEegTimers
  /\ eeg' = scheduleNextPoll([eeg EXCEPT !.isRunning = TRUE])
  /\ UNCHANGED relayVars

\* stop() (eegService.js:49-59): clearTimeout of a timeout that has fired
\* does nothing
EegStop ==
  /\ eeg' = [isRunning |-> FALSE,
             timerId |-> "null",
             timers |-> IF eeg.timerId = "pending" THEN eeg.timers - 1 ELSE eeg.timers,
             polls |-> [j \in 1..Len(eeg.polls) |->
                          IF eeg.polls[j].mine
                            THEN [eeg.polls[j] EXCEPT !.mine = FALSE, !.aborted = TRUE]
                            ELSE eeg.polls[j]]]
  /\ eeg' # eeg
  /\ UNCHANGED relayVars

\* a poll timeout fires, the one _timerId names (ref) or an earlier one:
\* _pollOnce up to the await of fetch (eegService.js:66-76)
EegTimerFire(ref) ==
  /\ IF ref THEN eeg.timerId = "pending"
            ELSE eeg.timers > (IF eeg.timerId = "pending" THEN 1 ELSE 0)
  /\ LET fired == [eeg EXCEPT !.timers = @ - 1,
                              !.timerId = IF ref THEN "fired" ELSE @] IN
       IF ~eeg.isRunning
         THEN eeg' = fired
         ELSE /\ Len(eeg.polls) < MaxPolls
              /\ eeg' = [fired EXCEPT !.polls =
                           Append([j \in 1..Len(eeg.polls) |->
                                     [eeg.polls[j] EXCEPT !.mine = FALSE]],
                                  [stage |-> "fetch", mine |-> TRUE, aborted |-> FALSE])]
  /\ UNCHANGED relayVars

\* fetch resolves with a response (eegService.js:73-78, 90): on to the await
\* of res.json() of either branch
FetchResponse(k, ok) ==
  /\ k \in DOMAIN eeg.polls
  /\ eeg.polls[k].stage = "fetch"
  /\ ~eeg.polls[k].aborted
  /\ eeg' = [eeg EXCEPT !.polls[k].stage = IF ok THEN "json" ELSE "errjson"]
  /\ UNCHANGED relayVars

\* fetch rejects (network error, abort), or res.json() of an OK response
\* settles: lines 90-108, ending in the finally block
PollEnds(k) ==
  /\ k \in DOMAIN eeg.polls
  /\ eeg.polls[k].stage \in {"fetch", "json"}
  /\ eeg.isRunning => eeg.timers < MaxEegTimers
  /\ eeg' = Finally(eeg, k)
  /\ UNCHANGED relayVars

\* the body of a non-OK response has been read (eegService.js:80-87): line 86
\* schedules, and the return at line 87 still runs the finally block
ErrorResponseEnds(k) ==
  /\ k \in DOMAIN eeg.polls
  /\ eeg.polls[k].stage = "errjson"
  /\ eeg.isRunning => eeg.timers + 1 < MaxEegTimers
  /\ eeg' = Finally(scheduleNextPoll(eeg), k)
  /\ UNCHANGED relayVars

NextEEG ==
  \/ EegStart
  \/ EegStop
  \/ \E ref \in BOOLEAN : EegTimerFire(ref)
  \/ \E k \in 1..MaxPolls : \E ok \in BOOLEAN : FetchResponse(k, ok)
  \/ \E k \in 1..MaxPolls : PollEnds(k)
  \/ \E k \in 1..MaxPolls : ErrorResponseEnds(k)

SpecEEG == Init /\ [][NextEEG]_vars

\* ---- the relay with Node's timer queue: a timeout that is pending fires ----
SpecLive == Init /\ [][Next]_vars /\ WF_vars(TimerFire(MaxConns))

TypeOK ==
  /\ upstream = Len(socks)
  /\ reconnectDelay \in RECONNECT_BASE_DELAY..RECONNECT_MAX_DELAY
  /\ timers \in 0..1


(***************************************************************************)
(* Properties                                                              *)
(***************************************************************************)

\* C1: while no upstream socket has ever opened, the timeout created by the
\* N-th scheduling waits min(base * 2^(N-1), max) ms, although every failed
\* attempt runs both the error and the close handler.
C1_BackoffDelays ==
  (~everOpened /\ schedSinceOpen >= 1) =>
    lastDelay = Min(RECONNECT_BASE_DELAY * 2^(schedSinceOpen - 1), RECONNECT_MAX_DELAY)

\* six attempts in a row have failed: 1000, 2000, 4000, 8000, 10000, 10000
C1_Witness ==
  /\ ~everOpened
  /\ last.op = "fail"
  /\ schedSinceOpen = 6
  /\ lastDelay = RECONNECT_MAX_DELAY
  /\ reconnectDelay = RECONNECT_MAX_DELAY

\* C2: in every reachable state at most one reconnect timeout is pending.
C2_OneTimerPending == timers <= 1

\* the error and the close event of one failed attempt have both been
\* handled, and exactly one timeout was created for them
C2_Witness ==
  /\ last.op = "fail"
  /\ schedSinceOpen = 1
  /\ reconnectTimer
  /\ timers = 1


\* C3: at most one upstream socket is connecting, open or not yet reported
\* closed.
C3_OneAttemptInFlight ==
  Cardinality({i \in DOMAIN socks : socks[i].rs # "CLOSED"}) <= 1

\* C4: the first frame a socket delivers after it opened is taken as the
\* authentication reply and publishes nothing.
C4_FirstFrameIsAuthReply ==
  [][\A i \in DOMAIN socks :
       (socks[i].rs # "CLOSED" /\ socks[i].rcvd = 0 /\ socks'[i].rcvd = 1) =>
         /\ ~upstreamAuthorized
         /\ published' = published
         /\ lastPoint' = lastPoint
         /\ inbox' = inbox]_vars

\* C5: a frame handled as the authentication reply sets the flag exactly
\* when its first two characters are "o" and "k".
C5_AuthIffOkPrefix ==
  (last.op = "message" /\ ~last.auth) =>
    (upstreamAuthorized <=>
       (Len(last.msg) >= 2 /\ last.msg[1] = "o" /\ last.msg[2] = "k"))

\* "ok, welcome" was the reply and the connection is authorized
C5_Witness ==
  /\ last.op = "message"
  /\ ~last.auth
  /\ last.msg = <<"o", "k", ",", " ", "w", "e", "l", "c", "o", "m", "e">>
  /\ upstreamAuthorized

\* what a subscriber must be sent for GazeX = a, GazeY = b
IsPointJSON(payload, a, b) ==
  JSONParse(payload) =
    [ok |-> TRUE,
     val |-> [t |-> "object",
              f |-> ("x" :> [t |-> "number", v |-> a]) @@
                    ("y" :> [t |-> "number", v |-> b])]]

\* C6: a frame with numeric GazeX = a and GazeY = b, received while
\* authorized, sends every open subscriber exactly one message, the JSON
\* object with the two fields x = a and y = b.
C6_FanOutExactPoint ==
  [][\A msg \in HubFrames :
       (/\ upstreamAuthorized
        /\ JSONParse(msg).ok
        /\ IsPoint(JSONParse(msg).val)
        /\ UpstreamMessage(1, msg, MaxPublishes)) =>
         \A c \in ClientIds :
           clients[c] = "OPEN" =>
             /\ Len(inbox'[c]) = Len(inbox[c]) + 1
             /\ SubSeq(inbox'[c], 1, Len(inbox[c])) = inbox[c]
             /\ IsPointJSON(inbox'[c][Len(inbox'[c])],
                            JSONParse(msg).val.f["GazeX"].v,
                            JSONParse(msg).val.f["GazeY"].v)]_vars

\* C7: a subscriber that connected after k >= 1 publishes was first sent the
\* k-th point, and after it only the points published later, in order; one
\* that connected before any publish was sent nothing on connect.
C7_ReplayLatest ==
  \A c \in ClientIds :
    clients[c] \in {"OPEN", "CLOSING"} =>
      LET k == joinedAt[c]
          replay == IF k >= 1 THEN 1 ELSE 0
      IN /\ Len(inbox[c]) >= replay
         /\ Len(inbox[c]) <= replay + (Len(published) - k)
         /\ k >= 1 => inbox[c][1] = JSONStringify(published[k])
         /\ \A j \in (replay + 1)..Len(inbox[c]) :
              inbox[c][j] = JSONStringify(published[k + j - replay])

\* a subscriber connected after three publishes of which the third differs
\* from the first two, and holds the third only
C7_Witness ==
  \E c \in ClientIds :
    /\ clients[c] = "OPEN"
    /\ joinedAt[c] = 3
    /\ published[3] # published[1]
    /\ published[3] # published[2]
    /\ inbox[c] = <<JSONStringify(published[3])>>

\* C8: while authorized, a frame that is not JSON or has no numeric
\* GazeX/GazeY sends nothing and leaves the connection, the flag, the cached
\* point and the reconnect state as they were, and the relay goes on.
C8_BadFrameDropped ==
  [][\A msg \in Frames :
       (/\ upstreamAuthorized
        /\ (~JSONParse(msg).ok \/ ~IsPoint(JSONParse(msg).val))
        /\ UpstreamMessage(1, msg, MaxRelayPublishes)) =>
         /\ ~crashed'
         /\ inbox' = inbox
         /\ \A i \in DOMAIN socks : socks'[i].rs = socks[i].rs
         /\ upstreamAuthorized' = upstreamAuthorized
         /\ lastPoint' = lastPoint
         /\ reconnectDelay' = reconnectDelay
         /\ reconnectTimer' = reconnectTimer
         /\ timers' = timers]_vars

\* C9: a publish sends to no subscriber whose channel is not open, sends the
\* point to every open one and stores it as the latest point.
C9_ClosedSkipped ==
  [][published' # published =>
       LET point == published'[Len(published')] IN
         /\ ~crashed'
         /\ lastPoint' = <<point>>
         /\ \A c \in ClientIds :
              IF clients[c] = "OPEN"
                THEN inbox'[c] = Append(inbox[c], JSONStringify(point))
                ELSE inbox'[c] = inbox[c]]_vars

\* one subscriber is closing and was left out of a publish that another
\* subscriber, connected at the same time, was sent
C9_Witness ==
  \E c, d \in ClientIds :
    /\ clients[c] = "CLOSING"
    /\ clients[d] = "OPEN"
    /\ joinedAt[c] = 0
    /\ joinedAt[d] = 0
    /\ Len(inbox[d]) = Len(published)
    /\ Len(inbox[c]) < Len(inbox[d])
    /\ lastPoint = <<published[Len(published)]>>

\* C10 as stated: only a successful authorization brings the delay back to
\* its base value.
C10_ResetOnlyByAuth ==
  [][(reconnectDelay # RECONNECT_BASE_DELAY /\ reconnectDelay' = RECONNECT_BASE_DELAY) =>
       (~upstreamAuthorized /\ upstreamAuthorized')]_vars

OpenStep == \E i \in DOMAIN socks : socks[i].rs = "CONNECTING" /\ socks'[i].wasOpen

\* C10 as amended: every open event sets the delay to base and nothing else
\* lowers it, an authorization leaves it unchanged, and the first timeout
\* created after an open (as by a failed authentication) waits base.
C10_ResetByOpen ==
  [][/\ OpenStep => reconnectDelay' = RECONNECT_BASE_DELAY
     /\ reconnectDelay' < reconnectDelay => OpenStep
     /\ (~upstreamAuthorized /\ upstreamAuthorized') => reconnectDelay' = reconnectDelay
     /\ (everOpened /\ schedSinceOpen = 0 /\ schedSinceOpen' = 1) =>
          lastDelay' = RECONNECT_BASE_DELAY]_vars

\* the second socket opened after a failure had doubled the delay, its
\* authentication failed, and the timeout created for it waits base
C10_Witness ==
  /\ last.op = "message"
  /\ last.s = 2
  /\ ~last.auth
  /\ ~upstreamAuthorized
  /\ socks[1].wasOpen
  /\ socks[2].rs = "CLOSING"
  /\ schedSinceOpen = 1
  /\ reconnectTimer
  /\ lastDelay = RECONNECT_BASE_DELAY
  /\ reconnectDelay = 2 * RECONNECT_BASE_DELAY

\* C11: at every step that sets the authorization flag the reconnect delay
\* is base, so the next timeout created waits base.
C11_DelayBaseAtAuth ==
  [][(~upstreamAuthorized /\ upstreamAuthorized') =>
       reconnectDelay' = RECONNECT_BASE_DELAY]_vars

\* the last upstream callback was a close, an error or a refused
\* authentication, and connectUpstream has not run since
AuthFailed == last.op = "message" /\ ~last.auth /\ ~upstreamAuthorized

RetryDue == last.op \in {"close", "error", "fail"} \/ AuthFailed

\* C12: after a close, an error or a refused authentication, connectUpstream
\* runs again (a further socket is created) whenever pending timeouts fire.
C12_RetriesForever ==
  \A n \in 1..(MaxConns - 1) :
    (RetryDue /\ Len(socks) = n) ~> (Len(socks) > n)

\* the state of the upstream connection, read off `upstream.readyState` and
\* the flag
UpstreamState ==
  IF upstream = 0 THEN "Disconnected"
  ELSE IF socks[upstream].rs \in {"CLOSING", "CLOSED"} THEN "Disconnected"
  ELSE IF socks[upstream].rs = "CONNECTING" THEN "Connecting"
  ELSE IF upstreamAuthorized THEN "Authorized"
  ELSE "AwaitingAuth"

\* C13: a frame causes a publish only when the upstream connection is
\* Authorized, never when it is Disconnected, Connecting or AwaitingAuth.
C13_NoDataBeforeAuth ==
  [][published' # published => UpstreamState = "Authorized"]_vars

\* C14: a step that publishes no point (connect, open, authentication reply,
\* dropped frame, close, error, timer) leaves the cached point as it was and
\* sends nothing; a subscriber that connects is sent the cached point
\* whatever the state of the upstream connection.
C14_OutageSilence ==
  [][/\ published' = published =>
          /\ lastPoint' = lastPoint
          /\ \A c \in ClientIds :
               \/ inbox'[c] = inbox[c]
               \/ clients[c] = "NONE" /\ clients'[c] = "OPEN"
               \/ clients'[c] = "CLOSED" /\ inbox'[c] = << >>
     /\ \A c \in ClientIds :
          (clients[c] = "NONE" /\ clients'[c] = "OPEN") =>
            inbox'[c] = IF lastPoint = << >>
                          THEN << >>
                          ELSE <<JSONStringify(lastPoint[1])>>]_vars

\* the upstream connection is down and a reconnect is pending; a subscriber
\* that connected after the publish holds the cached point and nothing else
C14_Witness ==
  /\ ~crashed
  /\ \A i \in DOMAIN socks : socks[i].rs = "CLOSED"
  /\ timers = 1
  /\ ~upstreamAuthorized
  /\ lastPoint # << >>
  /\ \E c \in ClientIds :
       /\ clients[c] = "OPEN"
       /\ joinedAt[c] = 1
       /\ inbox[c] = <<JSONStringify(lastPoint[1])>>

\* C15: connectUpstream clears the flag and closes the previous socket if it
\* is open, and from then on the flag is set only by a reply that starts with
\* "ok" and was received on the new (the current) socket.
C15_ConnectResetsAuth ==
  [][/\ Len(socks') > Len(socks) =>
          /\ ~upstreamAuthorized'
          /\ (upstream # 0 /\ socks[upstream].rs = "OPEN") =>
               socks'[upstream].rs = "CLOSING"
     /\ (~upstreamAuthorized /\ upstreamAuthorized') =>
          /\ last'.op = "message"
          /\ last'.s = upstream
          /\ startsWith(last'.msg, OkPrefix)]_vars

\* C16: the step at which a socket reaches OPEN leaves the reconnect delay at
\* its base value, whatever it was before and whatever the handler does next.
C16_OpenResetsDelay ==
  [][\A i \in DOMAIN socks :
       (socks[i].rs = "CONNECTING" /\ socks'[i].wasOpen) =>
         reconnectDelay' = RECONNECT_BASE_DELAY]_vars

\* the second socket has just opened after two timeouts had been created,
\* the later one with 2000 ms, so the delay was 4000 ms and is base again
C16_Witness ==
  /\ last.op = "open"
  /\ last.s = 2
  /\ lastDelay = 2 * RECONNECT_BASE_DELAY
  /\ schedSinceOpen = 0
  /\ reconnectDelay = RECONNECT_BASE_DELAY

\* C17: on every socket that has opened exactly one frame, the key, has been
\* sent (by its own open handler, hence before any of its frames is handled),
\* and on a socket that has not opened nothing has been sent.
C17_OneCredentialFrame ==
  \A i \in DOMAIN socks :
    /\ socks[i].wasOpen => socks[i].sent = 1
    /\ ~socks[i].wasOpen => socks[i].sent = 0

\* C18: when a frame taken as the authentication reply does not start with
\* "ok", the socket that delivered it is closed (closing or closed), the flag
\* stays false, one reconnect timeout is pending and the relay goes on.
C18_AuthFailureHandled ==
  [][\A i \in DOMAIN socks : \A msg \in RaceFrames :
       (/\ ~upstreamAuthorized
        /\ ~startsWith(msg, OkPrefix)
        /\ UpstreamMessage(i, msg, 0)) =>
         /\ socks'[i].rs \in {"CLOSING", "CLOSED"}
         /\ ~upstreamAuthorized'
         /\ reconnectTimer'
         /\ timers' = 1
         /\ ~crashed']_vars

\* C19: while a timeout is pending no step creates another or doubles the
\* delay, and the events of one attempt (here the first socket: refused
\* reply, error, close) create a timeout only before connectUpstream has run
\* for it, hence one doubling and one connectUpstream for that attempt.
C19_Coalescing ==
  [][/\ reconnectTimer => (timers' <= timers /\ reconnectDelay' <= reconnectDelay)
     /\ (timers' > timers /\ last'.s = 1) => upstream = 1]_vars

\* C20: the cache is empty exactly when no point has been published, and
\* otherwise holds one point, the one published last.
C20_CacheIsLatest ==
  /\ Len(lastPoint) <= 1
  /\ lastPoint = << >> <=> published = << >>
  /\ published # << >> => lastPoint = <<published[Len(published)]>>

\* three points have been published, the third unlike the second, and the
\* cache holds the third
C20_Witness ==
  /\ Len(published) = 3
  /\ published[3] # published[2]
  /\ lastPoint = <<published[3]>>

\* C21: a subscriber whose channel is open holds, after the replayed point if
\* it was sent one, exactly the points published since it connected, each
\* once and in publish order; so every open subscriber has been sent publish
\* k before publish k+1 is sent to anyone.
C21_OrderedDelivery ==
  \A c \in ClientIds :
    clients[c] = "OPEN" =>
      LET k == joinedAt[c]
          replay == IF k >= 1 THEN 1 ELSE 0
      IN /\ Len(inbox[c]) = replay + (Len(published) - k)
         /\ \A j \in 1..(Len(published) - k) :
              inbox[c][replay + j] = JSONStringify(published[k + j])

\* one subscriber connected before the first publish and one after it; three
\* points were published, and the two hold three messages each
C21_Witness ==
  /\ Len(published) = 3
  /\ published[2] # published[3]
  /\ \E c, d \in ClientIds :
       /\ clients[c] = "OPEN" /\ joinedAt[c] = 0 /\ Len(inbox[c]) = 3
       /\ clients[d] = "OPEN" /\ joinedAt[d] = 1 /\ Len(inbox[d]) = 3

\* C22: once started, the current upstream socket is connecting or open, or
\* an event of it is still to come (it is closing), or a reconnect timeout
\* is pending.
C22_AlwaysRestoring ==
  started =>
    \/ upstream # 0 /\ socks[upstream].rs \in {"CONNECTING", "OPEN", "CLOSING"}
    \/ timers > 0

\* C23: connectUpstream does not run while the current socket is open, has
\* reported no error and the flag is set.
C23_HealthyNotTornDown ==
  [][Len(socks') > Len(socks) =>
       ~(/\ upstream # 0
         /\ socks[upstream].rs = "OPEN"
         /\ ~socks[upstream].errored
         /\ upstreamAuthorized)]_vars

\* C24: with an upstream that is faultless from the first scheduled reconnect
\* on, the connection becomes Authorized and stays Authorized for ever.
C24_EventuallyStable == <>[](UpstreamState = "Authorized")

\* C25: an open, message, error or close event of a socket that is no longer
\* the current one leaves the flag, the current socket (its readyState and
\* what was sent on it), the published points and the timer queue unchanged.
C25_SupersededIgnored ==
  [][\A i \in DOMAIN socks :
       (/\ i < upstream
        /\ \/ UpstreamOpen(i)
           \/ \E msg \in RelayFrames : UpstreamMessage(i, msg, MaxRelayPublishes)
           \/ ConnectFail(i)
           \/ UpstreamError(i)
           \/ UpstreamClose(i)) =>
         /\ upstreamAuthorized' = upstreamAuthorized
         /\ socks'[upstream] = socks[upstream]
         /\ published' = published
         /\ timers' = timers]_vars

\* C26: once the first frame of the socket has been refused (a frame was
\* received and the flag is false), no later step sets the flag or publishes.
C26_OnlyFirstFrameAuthorizes ==
  [][(/\ Len(socks) = 1
      /\ socks[1].rcvd = 1
      /\ ~upstreamAuthorized) =>
       (~upstreamAuthorized' /\ published' = published)]_vars

\* C27: the reconnect delay lies between base and max and is base doubled
\* some number of times, capped at max.
C27_DelayRange ==
  /\ RECONNECT_BASE_DELAY <= reconnectDelay
  /\ reconnectDelay <= RECONNECT_MAX_DELAY
  /\ \E k \in 0..4 :
       reconnectDelay = Min(RECONNECT_BASE_DELAY * 2^k, RECONNECT_MAX_DELAY)

\* after a socket had opened, a timeout was created with the delay already
\* at max, and the doubling was capped
C27_Witness ==
  /\ everOpened
  /\ lastDelay = RECONNECT_MAX_DELAY
  /\ reconnectDelay = RECONNECT_MAX_DELAY

\* C28: while the service is running, the pending poll timeouts and the
\* requests in flight (those not aborted) are together at most one.
C28_OnePollOutstanding ==
  eeg.isRunning =>
    eeg.timers + Cardinality({k \in DOMAIN eeg.polls : ~eeg.polls[k].aborted}) <= 1

\* C29: while the service is stopped no poll timeout is pending and no
\* request is started, and the step that starts it again leaves exactly one
\* timeout and no call of _pollOnce that would schedule a second chain.
C29_StopHalts ==
  [][/\ ~eeg'.isRunning => eeg'.timers = 0
     /\ ~eeg.isRunning => Len(eeg'.polls) <= Len(eeg.polls)
     /\ (~eeg.isRunning /\ eeg'.isRunning) =>
          (eeg'.timers = 1 /\ eeg'.polls = << >>)]_vars

====
